---- MODULE Spec2Model ----
(***************************************************************************)
(* Model of quantify_clusters.py: for every directory of DIR_PATHS the     *)
(* cluster coordinates are loaded once, and every mask image of the        *)
(* directory is aligned, measured, tested for cluster membership and       *)
(* written out as one csv record.                                          *)
(*                                                                         *)
(* Numbers.  Raw com_x / com_y values are exact rationals raw / RawDen     *)
(* (measurement px).  A rescaled coordinate is the exact rational          *)
(* v / CoordDen (mask px) with v = raw * PX_SIZE_MEASUREMENT and           *)
(* CoordDen = RawDen * PX_SIZE_CLUSTERS, i.e. raw * 108 / 10.              *)
(* mask_area_um holds the area in units of 1 / UmDen square micrometres.   *)
(* Images are square, N x N, indexed [row][column] from 0 as numpy does.   *)
(***************************************************************************)
EXTENDS Integers, Sequences, FiniteSets, TLC

\* ---------------------------------------------------------------- bounds
N == 2
MaxClusters == 2
NumDirs == 2
MaxMasks == 2

\* ------------------------------------------------------ program constants
PX_SIZE_MEASUREMENT == 108
PX_SIZE_CLUSTERS == 10
NmPerUm == 1000

DIR_PATHS == 1..NumDirs
\* raw coordinates are counted in 1 / RawDen measurement px
RawDen == PX_SIZE_MEASUREMENT
CoordDen == RawDen * PX_SIZE_CLUSTERS
UmDen == NmPerUm * NmPerUm
Idx == 0..(N - 1)

\* ------------------------------------------------------------ file system
\* One directory entry.  An image file carries its mode and its pixels (a
\* pixel is the tuple of its bands); the cluster file carries the rows of the
\* "clusters" table.  plot marks a name that contains "_FOV_mask_locs".
BlankPx == [r \in Idx |-> [c \in Idx |-> <<0>>]]

File(stem, ext, plot, mode, px, table) ==
    [stem |-> stem, ext |-> ext, plot |-> plot, mode |-> mode, px |-> px, table |-> table]

H5File(table) == File("clusters", "hdf5", FALSE, "", BlankPx, table)

ImageFile(stem, ext, mode, px) == File(stem, ext, FALSE, mode, px, <<>>)

\* the picture left in the directory by an earlier run
LeftoverPlot == File("a", "png", TRUE, "RGB", [r \in Idx |-> [c \in Idx |-> <<255, 255, 255>>]], <<>>)

Row(x, y) == [com_x |-> x, com_y |-> y]

\* Rectangle [r1..r2] x [c1..c2] of pixel fg on background bg.
RectPx(r1, r2, c1, c2, fg, bg) ==
    [r \in Idx |-> [c \in Idx |->
        IF r1 <= r /\ r <= r2 /\ c1 <= c /\ c <= c2 THEN fg ELSE bg]]

RectGrids(fgs, bg) ==
    { RectPx(r1, r2, c1, c2, fg, bg) :
        r1 \in Idx, r2 \in Idx, c1 \in Idx, c2 \in Idx, fg \in fgs }

Images ==
    { [mode |-> "L", px |-> g] : g \in RectGrids({<<0>>, <<1>>, <<255>>}, <<0>>) }
    \cup
    { [mode |-> "RGB", px |-> g] :
        g \in RectGrids({<<0, 0, 0>>, <<0, 0, 1>>, <<255, 255, 255>>}, <<0, 0, 0>>) }

\* Raw cluster centres: a rounding tie that lands in the grid (0.5), a plain
\* point in the grid, a tie whose even neighbour is the upper one (1.5), a
\* rounded row of -1, a rounded row of N, a rounded column of -(N+1).
OnPx(k) == k * PX_SIZE_CLUSTERS
HalfPx == PX_SIZE_CLUSTERS \div 2

Points ==
    { Row(HalfPx, OnPx(1)), Row(OnPx(1), OnPx(0)), Row(OnPx(1) + HalfPx, OnPx(0)),
      Row(OnPx(-1), OnPx(1)),
      Row(OnPx(N), OnPx(0)), Row(OnPx(1), OnPx(-(N + 1))) }

Tables == UNION { [1..n -> Points] : n \in 0..MaxClusters }

PlainDir == <<H5File(<<Row(OnPx(1), OnPx(0))>>), LeftoverPlot>>

\* one directory with any cluster table and any single mask image
RichDirs ==
    { <<H5File(t), ImageFile("m", "tif", im.mode, im.px)>> : t \in Tables, im \in Images }

UnitFS == { [d \in DIR_PATHS |-> IF d = 1 THEN rd ELSE PlainDir] : rd \in RichDirs }

\* The mask files of the pipeline runs: two decodable masks whose names differ
\* only in the extension, and one file that cannot be decoded.
Pool ==
    { ImageFile("a", "tif", "L", RectPx(0, N - 1, 0, N - 1, <<255>>, <<0>>)),
      ImageFile("a", "png", "L", RectPx(0, 0, N - 1, N - 1, <<1>>, <<0>>)),
      ImageFile("b", "tif", "corrupt", BlankPx) }

MaskLists ==
    { s \in UNION { [1..n -> Pool] : n \in 0..MaxMasks } :
        \A i \in DOMAIN s : \A j \in DOMAIN s : i # j => s[i] # s[j] }

SmallDirs ==
    { <<H5File(<<Row(OnPx(1), OnPx(0))>>)>> \o s : s \in MaskLists }
    \cup { <<ImageFile("a", "tif", "L", RectPx(0, N - 1, 0, N - 1, <<255>>, <<0>>))>> }

PipelineFS == [DIR_PATHS -> SmallDirs]

\* ------------------------------------------------------------------ state
VARIABLES
    fs,                  \* the input directories: DIR_PATHS -> listing (sequence of files)
    pc,                  \* position of the single thread of control
    error,               \* the exception that ended the run, "" if none
    dir_idx,             \* main: position in DIR_PATHS
    n_loads,             \* number of get_xy_locs calls made for each directory
    masks_paths,         \* run_quantify_clusters: the mask files of the directory
    clusters_xy,         \* run_quantify_clusters: rescaled cluster coordinates
    n_clusters,          \* run_quantify_clusters: len(clusters_xy)
    mask_idx,            \* run_quantify_clusters: position in masks_paths
    mask_name,
    mask,                \* the aligned mask array
    mask_area_px,
    mask_area_um,
    k,                   \* get_cluster_count: number of points examined
    count,               \* get_cluster_count: count
    locs_mask,           \* get_cluster_count: locs_mask
    cluster_count,
    cluster_count_per_area,
    records,             \* csv files written: save path -> data row
    plots                \* pictures written by visualize_cluster_centers_mask

vars == <<fs, pc, error, dir_idx, n_loads, masks_paths, clusters_xy, n_clusters,
          mask_idx, mask_name, mask, mask_area_px, mask_area_um, k, count,
          locs_mask, cluster_count, cluster_count_per_area, records, plots>>

\* ---------------------------------------------------------- get_xy_locs
Column(table, field) == [i \in DOMAIN table |-> table[i][field]]

\* v * PX_SIZE_MEASUREMENT / PX_SIZE_CLUSTERS, as a numerator over CoordDen
Rescale(raw) == raw * PX_SIZE_MEASUREMENT

\* the two columns stacked in the other order
ColumnStackSwapped(xs, ys) == [i \in DOMAIN xs |-> <<ys[i], xs[i]>>]

\* np.column_stack((xs, ys)): shape (n_clusters, 2)
ColumnStack(xs, ys) == [i \in DOMAIN xs |-> <<xs[i], ys[i]>>]

get_xy_locs(h5) ==
    ColumnStack([i \in DOMAIN h5.table |-> Rescale(Column(h5.table, "com_x")[i])],
                [i \in DOMAIN h5.table |-> Rescale(Column(h5.table, "com_y")[i])])

\* ------------------------------------------------------------- get_mask
\* Image.convert("L"): an L image is copied, an RGB pixel becomes its luma
\* (R*19595 + G*38470 + B*7471 + 0x8000) >> 16.
Luma(mode, p) ==
    IF mode = "L" THEN p[1]
    ELSE (p[1] * 19595 + p[2] * 38470 + p[3] * 7471 + 32768) \div 65536

ConvertL(img) == [r \in Idx |-> [c \in Idx |-> Luma(img.mode, img.px[r][c])]]

\* Image.transpose(FLIP_LEFT_RIGHT): column c comes from column N-1-c
FlipLeftRight(g) == [r \in Idx |-> [c \in Idx |-> g[r][N - 1 - c]]]

\* clockwise quarter turn
Rotate270(g) == [r \in Idx |-> [c \in Idx |-> g[N - 1 - c][r]]]

\* Image.rotate(90) of a square image: counter-clockwise quarter turn
Rotate90(g) == [r \in Idx |-> [c \in Idx |-> g[c][N - 1 - r]]]

get_mask(img) == Rotate90(FlipLeftRight(ConvertL(img)))

Decodable(f) == f.mode \in {"L", "RGB"}

\* -------------------------------------------------------- get_mask_area
\* np.where(mask > 0, 1, mask): a new array
NpWhere(m) == [r \in Idx |-> [c \in Idx |-> IF m[r][c] > 0 THEN 1 ELSE m[r][c]]]

RECURSIVE SumRow(_, _)
SumRow(row, c) == IF c < 0 THEN 0 ELSE row[c] + SumRow(row, c - 1)

RECURSIVE SumRows(_, _)
SumRows(g, r) == IF r < 0 THEN 0 ELSE SumRow(g[r], N - 1) + SumRows(g, r - 1)

\* np.sum of a uint8 array accumulates in a 64-bit integer, which no number
\* of cells of the grid reaches
NpSum(g) == SumRows(g, N - 1)

\* the binarization without np.where's copy: mask[mask > 0] = 1
BinarizedInPlace(m) == NpWhere(m)

\* The caller's array after the call: line 100 rebinds the local name to the
\* array np.where returns, the argument is not written.
ArgumentAfterMaskArea(m) == m

\* the unbinarized array summed as it is
NotBinarized(m) == m

Binarize(m) == NpWhere(m)

\* area_px * (PX_SIZE_CLUSTERS / 1000) ** 2, as a numerator over UmDen
AreaUm(area_px) == area_px * PX_SIZE_CLUSTERS * PX_SIZE_CLUSTERS

get_mask_area(m) ==
    LET area_px == NpSum(Binarize(m))
    IN  [area_px |-> area_px, area_um |-> AreaUm(area_px)]

\* ---------------------------------------------------- get_cluster_count
\* round to the nearest integer, a tie going up
RoundHalfUp(v) == (2 * v + CoordDen) \div (2 * CoordDen)

\* int(np.round(v / CoordDen)): nearest integer, a tie going to the even one
NpRound(v) ==
    LET q == v \div CoordDen
        r == v - q * CoordDen
    IN  IF 2 * r < CoordDen THEN q
        ELSE IF 2 * r > CoordDen THEN q + 1
        ELSE IF q % 2 = 0 THEN q ELSE q + 1

\* numpy indexing of an axis of length n: -n..-1 count from the end, any
\* other index outside 0..n-1 raises IndexError
IndexOk(i, n) == -n <= i /\ i < n
NpIndex(i, n) == IF i < 0 THEN i + n ELSE i

\* a loop body that counts every point it examines
LoopBodyCountingAll(m, xy, cnt, locs) ==
    LET x == NpRound(xy[1])
        y == NpRound(xy[2])
    IN  IF ~IndexOk(x, N) \/ ~IndexOk(y, N)
        THEN [err |-> "IndexError: index out of bounds", count |-> cnt, locs |-> locs]
        ELSE IF m[NpIndex(x, N)][NpIndex(y, N)] # 0
             THEN [err |-> "", count |-> cnt + 1, locs |-> Append(locs, <<x, y>>)]
             ELSE [err |-> "", count |-> cnt + 1, locs |-> locs]

\* lines 86-89: one pass of the loop over clusters_xy
LoopBody(m, xy, cnt, locs) ==
    LET x == NpRound(xy[1])
        y == NpRound(xy[2])
    IN  IF ~IndexOk(x, N) \/ ~IndexOk(y, N)
        THEN [err |-> "IndexError: index out of bounds", count |-> cnt, locs |-> locs]
        ELSE IF m[NpIndex(x, N)][NpIndex(y, N)] # 0
             THEN [err |-> "", count |-> cnt + 1, locs |-> Append(locs, <<x, y>>)]
             ELSE [err |-> "", count |-> cnt, locs |-> locs]

\* --------------------------------------------------------------- density
Quotient(kind, num, den) == [kind |-> kind, num |-> num, den |-> den]
Unset == Quotient("unset", 0, 0)
NaN == Quotient("nan", 0, 0)
Inf == Quotient("inf", 0, 0)
Raised == Quotient("ZeroDivisionError", 0, 0)

\* division of two Python numbers: a zero divisor raises
PyTrueDivide(c, area_um) ==
    IF area_um = 0 THEN Raised ELSE Quotient("num", c * UmDen, area_um)

\* cluster_count / mask_area_um with mask_area_um a numpy float64 (np.sum
\* gives a numpy integer, its product with a float is a float64): division by
\* zero warns and gives nan for 0/0 and inf otherwise
TrueDivide(c, area_um) ==
    IF area_um = 0
    THEN (IF c = 0 THEN NaN ELSE Inf)
    ELSE Quotient("num", c * UmDen, area_um)

\* ---------------------------------------------------------------- actions
ZeroGrid == [r \in Idx |-> [c \in Idx |-> 0]]

Init ==
    /\ \/ fs \in UnitFS
       \/ fs \in PipelineFS
    /\ pc = "main"
    /\ error = ""
    /\ dir_idx = 0
    /\ n_loads = [d \in DIR_PATHS |-> 0]
    /\ masks_paths = <<>>
    /\ clusters_xy = <<>>
    /\ n_clusters = 0
    /\ mask_idx = 0
    /\ mask_name = ""
    /\ mask = ZeroGrid
    /\ mask_area_px = 0
    /\ mask_area_um = 0
    /\ k = 0
    /\ count = 0
    /\ locs_mask = <<>>
    /\ cluster_count = 0
    /\ cluster_count_per_area = Unset
    /\ records = {}
    /\ plots = {}

runVars == <<masks_paths, clusters_xy, n_clusters, mask_idx, n_loads>>
maskVars == <<mask_name, mask, mask_area_px, mask_area_um>>
countVars == <<k, count, locs_mask, cluster_count>>
outVars == <<records, plots>>

\* lines 228-231: for dir_path in DIR_PATHS
Main ==
    /\ pc = "main"
    /\ IF dir_idx < NumDirs
       THEN dir_idx' = dir_idx + 1 /\ pc' = "run"
       ELSE dir_idx' = dir_idx /\ pc' = "done"
    /\ UNCHANGED <<fs, error, runVars, maskVars, countVars, cluster_count_per_area, outVars>>

IsClusterFile(f) == f.ext = "hdf5"
IsMaskFile(f) == f.ext \in {"tif", "png", "jpg"} /\ ~f.plot

\* line 194 and line 196: the listing of directory d, filtered
ClusterFilesOf(d) == SelectSeq(fs[d], IsClusterFile)
MasksOf(d) == SelectSeq(fs[d], IsMaskFile)

\* lines 194-201: the cluster file, the mask files, the coordinates
RunStart ==
    /\ pc = "run"
    /\ LET h5s == ClusterFilesOf(dir_idx)
       IN  IF h5s = <<>>
           THEN /\ pc' = "crashed"
                /\ error' = "IndexError: list index out of range"
                /\ UNCHANGED runVars
           ELSE /\ masks_paths' = MasksOf(dir_idx)
                /\ clusters_xy' = get_xy_locs(h5s[1])
                /\ n_clusters' = Len(get_xy_locs(h5s[1]))
                /\ n_loads' = [n_loads EXCEPT ![dir_idx] = @ + 1]
                /\ mask_idx' = 0
                /\ pc' = "for_mask"
                /\ error' = error
    /\ UNCHANGED <<fs, dir_idx, maskVars, countVars, cluster_count_per_area, outVars>>

\* line 203: for mask_path in masks_paths
ForMask ==
    /\ pc = "for_mask"
    /\ IF mask_idx < Len(masks_paths)
       THEN mask_idx' = mask_idx + 1 /\ pc' = "get_mask"
       ELSE mask_idx' = mask_idx /\ pc' = "main"
    /\ UNCHANGED <<fs, error, dir_idx, masks_paths, clusters_xy, n_clusters, n_loads,
                   maskVars, countVars, cluster_count_per_area, outVars>>

\* lines 205-207: the mask's name and its aligned array
GetMask ==
    /\ pc = "get_mask"
    /\ LET f == masks_paths[mask_idx]
       IN  /\ mask_name' = f.stem
           /\ IF Decodable(f)
              THEN mask' = get_mask(f) /\ pc' = "get_mask_area" /\ error' = error
              ELSE mask' = mask /\ pc' = "crashed" /\ error' = "UnidentifiedImageError"
    /\ UNCHANGED <<fs, dir_idx, runVars, mask_area_px, mask_area_um, countVars,
                   cluster_count_per_area, outVars>>

\* line 209
GetMaskArea ==
    /\ pc = "get_mask_area"
    /\ mask_area_px' = get_mask_area(mask).area_px
    /\ mask_area_um' = get_mask_area(mask).area_um
    /\ mask' = ArgumentAfterMaskArea(mask)
    /\ pc' = "count_init"
    /\ UNCHANGED <<fs, error, dir_idx, runVars, mask_name, countVars,
                   cluster_count_per_area, outVars>>

\* lines 83-84: get_cluster_count is entered
GetClusterCountEnter ==
    /\ pc = "count_init"
    /\ k' = 0
    /\ count' = 0
    /\ locs_mask' = <<>>
    /\ pc' = "count_loop"
    /\ UNCHANGED <<fs, error, dir_idx, runVars, maskVars, cluster_count,
                   cluster_count_per_area, outVars>>

\* lines 85-89: the next point of clusters_xy
GetClusterCountStep ==
    /\ pc = "count_loop"
    /\ k < Len(clusters_xy)
    /\ LET res == LoopBody(mask, clusters_xy[k + 1], count, locs_mask)
       IN  /\ count' = res.count
           /\ locs_mask' = res.locs
           /\ IF res.err = ""
              THEN k' = k + 1 /\ pc' = pc /\ error' = error
              ELSE k' = k /\ pc' = "crashed" /\ error' = res.err
    /\ UNCHANGED <<fs, dir_idx, runVars, maskVars, cluster_count,
                   cluster_count_per_area, outVars>>

\* line 90 and the assignment of line 211
GetClusterCountReturn ==
    /\ pc = "count_loop"
    /\ k = Len(clusters_xy)
    /\ cluster_count' = count
    /\ pc' = "density"
    /\ UNCHANGED <<fs, error, dir_idx, runVars, maskVars, k, count, locs_mask,
                   cluster_count_per_area, outVars>>

\* line 213
Density ==
    /\ pc = "density"
    /\ LET q == TrueDivide(cluster_count, mask_area_um)
       IN  IF q = Raised
           THEN /\ pc' = "crashed"
                /\ error' = "ZeroDivisionError"
                /\ UNCHANGED cluster_count_per_area
           ELSE /\ cluster_count_per_area' = q
                /\ pc' = "visualize"
                /\ error' = error
    /\ UNCHANGED <<fs, dir_idx, runVars, maskVars, countVars, outVars>>

\* line 222, lines 164-189: x_coords, y_coords = zip(*clusters_xy) has nothing
\* to unpack when there is no cluster; otherwise the picture is saved
Visualize ==
    /\ pc = "visualize"
    /\ IF clusters_xy = <<>>
       THEN pc' = "crashed" /\ error' = "ValueError" /\ plots' = plots
       ELSE pc' = "save_results" /\ error' = error
            /\ plots' = plots \cup {<<dir_idx, mask_name>>}
    /\ UNCHANGED <<fs, dir_idx, runVars, maskVars, countVars, cluster_count_per_area,
                   records>>

\* os.path.splitext(cluster_path)[0] + mask_name + ".csv"
SavePath(d, name) == <<d, name>>

CsvRow(name, area_px, area_um, cnt, per_area, total) ==
    [name |-> name, area_px |-> area_px, area_um |-> area_um, count |-> cnt,
     per_area |-> per_area, total |-> total]

\* lines 119-122: open(save_path, "w") replaces the file of that path
save_results(files, path, row) ==
    { f \in files : f.path # path } \cup {[path |-> path, row |-> row]}

\* line 225
SaveResults ==
    /\ pc = "save_results"
    /\ records' = save_results(records, SavePath(dir_idx, mask_name),
                      CsvRow(mask_name, mask_area_px, mask_area_um, cluster_count,
                             cluster_count_per_area, n_clusters))
    /\ pc' = "for_mask"
    /\ UNCHANGED <<fs, error, dir_idx, runVars, maskVars, countVars,
                   cluster_count_per_area, plots>>

Next ==
    \/ Main
    \/ RunStart
    \/ ForMask
    \/ GetMask
    \/ GetMaskArea
    \/ GetClusterCountEnter
    \/ GetClusterCountStep
    \/ GetClusterCountReturn
    \/ Density
    \/ Visualize
    \/ SaveResults

Spec == Init /\ [][Next]_vars

\* ================================================================ claims
Abs(z) == IF z < 0 THEN -z ELSE z

\* the run is inside the body of the mask loop, the mask array in hand
AfterGetMask ==
    pc \in {"get_mask_area", "count_init", "count_loop", "density", "visualize", "save_results"}
AfterMaskArea ==
    pc \in {"count_init", "count_loop", "density", "visualize", "save_results"}
AfterCount == pc \in {"density", "visualize", "save_results"}

\* the integer nearest to v / CoordDen, the even one of the two at a tie
NearestEven(v) ==
    CHOOSE z \in (-(N + 3))..(N + 3) :
        /\ 2 * Abs(v - z * CoordDen) <= CoordDen
        /\ (2 * Abs(v - z * CoordDen) = CoordDen => z % 2 = 0)

IsTie(v) == 2 * (v % CoordDen) = CoordDen

RoundedPairs == [i \in DOMAIN clusters_xy |->
                    <<NearestEven(clusters_xy[i][1]), NearestEven(clusters_xy[i][2])>>]

InGrid(p) == p[1] \in Idx /\ p[2] \in Idx

AllZero(g) == \A r \in Idx : \A c \in Idx : g[r][c] = 0

ForegroundCells(g) == { rc \in Idx \X Idx : g[rc[1]][rc[2]] > 0 }

\* ---- C1
MaskLoopErrors ==
    {"UnidentifiedImageError", "IndexError: index out of bounds", "ValueError",
     "ZeroDivisionError"}

Later(d, j) == d > dir_idx \/ (d = dir_idx /\ j > mask_idx)
Processed(d, j) == d < dir_idx \/ (d = dir_idx /\ j <= mask_idx)

\* the unit (d, j) has nothing in it that fails
UnitOk(d, j) ==
    /\ ClusterFilesOf(d) # <<>>
    /\ Decodable(MasksOf(d)[j])
    /\ LET xy == get_xy_locs(ClusterFilesOf(d)[1])
       IN  /\ xy # <<>>
           /\ \A i \in DOMAIN xy :
                 IndexOk(NpRound(xy[i][1]), N) /\ IndexOk(NpRound(xy[i][2]), N)

HasRecord(d, j) == \E f \in records : f.path = SavePath(d, MasksOf(d)[j].stem)

\* C1: failures are isolated per (directory, mask): once the processing of one
\* mask has failed and the program has come to rest, every later mask of the
\* same directory and every mask of every later directory has been processed,
\* and has its record unless it fails itself.
C1_FailureIsolated ==
    (pc = "crashed" /\ error \in MaskLoopErrors) =>
        \A d \in DIR_PATHS : \A j \in 1..Len(MasksOf(d)) :
            Later(d, j) => (Processed(d, j) /\ (UnitOk(d, j) => HasRecord(d, j)))

\* ---- C2
\* C2: a point whose rounded row or column lies outside 0..N-1 (negative ones
\* included) is fatal for the mask: the pass over the coordinates never gets
\* beyond such a point, so every point already examined lies in the grid.
C2_OutOfGridIsFatal ==
    pc \in {"count_loop", "density", "visualize", "save_results"} =>
        \A i \in 1..k : InGrid(<<NpRound(clusters_xy[i][1]), NpRound(clusters_xy[i][2])>>)

\* ---- C3
\* C3: for an all-zero mask area_px = 0 and area_um = 0, the density is the
\* distinguishable value NaN in the run and in the mask's record, and no run
\* ends in a division error.
C3_EmptyMaskDensity ==
    /\ (AfterMaskArea /\ AllZero(mask)) => (mask_area_px = 0 /\ mask_area_um = 0)
    /\ (pc \in {"visualize", "save_results"} /\ AllZero(mask)) =>
            cluster_count_per_area = NaN
    /\ error # "ZeroDivisionError"
    /\ \A f \in records : f.row.area_px = 0 =>
            (f.row.area_um = 0 /\ f.row.per_area = NaN /\ f.row.per_area.kind # "num")

C3_Witness ==
    /\ pc = "for_mask"
    /\ AllZero(mask)
    /\ \E f \in records :
          f.path = SavePath(dir_idx, mask_name) /\ f.row.area_px = 0 /\ f.row.per_area = NaN

\* ---- C4
\* C4: during the pass of get_cluster_count 0 <= count <= number of points
\* examined and count = len(locs_mask); on return 0 <= count_inside <=
\* len(clusters_xy).
C4_MembershipBound ==
    /\ pc = "count_loop" =>
          (0 <= count /\ count <= k /\ k <= Len(clusters_xy) /\ count = Len(locs_mask))
    /\ AfterCount =>
          (0 <= cluster_count /\ cluster_count <= Len(clusters_xy)
           /\ cluster_count = Len(locs_mask))

C4_Witness ==
    pc = "count_loop" /\ k = 2 /\ count = 1 /\ Len(locs_mask) = 1

\* ---- C5
NonZeroCell(p) == mask[p[1]][p[2]] # 0

\* C5: when every point rounds into the grid, points_inside is the
\* subsequence, in encounter order, of the pairs (round(x), round(y)) whose
\* cell mask[round(x)][round(y)] is non-zero, count_inside is its length, and
\* a tie is rounded to the even neighbour.
C5_PointsInside ==
    (AfterCount /\ \A i \in DOMAIN clusters_xy : InGrid(RoundedPairs[i])) =>
        /\ locs_mask = SelectSeq(RoundedPairs, NonZeroCell)
        /\ cluster_count = Len(SelectSeq(RoundedPairs, NonZeroCell))

C5_Witness ==
    /\ pc = "density"
    /\ Len(clusters_xy) = 2
    /\ \A i \in DOMAIN clusters_xy : InGrid(RoundedPairs[i])
    /\ IsTie(clusters_xy[1][1])
    /\ ~IsTie(clusters_xy[2][1])
    /\ locs_mask = <<RoundedPairs[1]>>

\* ---- C6
\* the areas of all the images of the model
ImageAreas == { get_mask_area(get_mask(im)) : im \in Images }

\* C6: area_px is the number of cells > 0, each counted once whatever its
\* intensity, area_um = area_px * (PX_SIZE_CLUSTERS / 1000)^2, and over all
\* masks the physical area is monotonic non-decreasing in area_px.
C6_MaskArea ==
    AfterMaskArea =>
        /\ mask_area_px = Cardinality(ForegroundCells(mask))
        /\ mask_area_um * NmPerUm * NmPerUm
              = mask_area_px * PX_SIZE_CLUSTERS * PX_SIZE_CLUSTERS * UmDen
        /\ \A other \in ImageAreas :
              /\ other.area_px <= mask_area_px => other.area_um <= mask_area_um
              /\ other.area_px >= mask_area_px => other.area_um >= mask_area_um

C6_Witness ==
    /\ pc = "count_init"
    /\ mask_area_px = 2
    /\ mask_area_um = 2 * PX_SIZE_CLUSTERS * PX_SIZE_CLUSTERS
    /\ \E rc \in ForegroundCells(mask) : mask[rc[1]][rc[2]] = 255

\* ---- C7
Rotate180(g) == [r \in Idx |-> [c \in Idx |-> g[N - 1 - r][N - 1 - c]]]

CurrentSource == ConvertL(masks_paths[mask_idx])

\* C7: the aligned mask is the luma of the source image mirrored and then
\* turned a quarter counter-clockwise: the source cell (r, c) lies at (c, r);
\* for a source that a half turn changes, mirroring after turning gives a
\* different grid.
C7_Orientation ==
    pc = "get_mask_area" =>
        /\ \A r \in Idx : \A c \in Idx :
              mask[c][r] = Luma(masks_paths[mask_idx].mode, masks_paths[mask_idx].px[r][c])
        /\ Rotate180(CurrentSource) # CurrentSource =>
              FlipLeftRight(Rotate90(CurrentSource)) # mask

\* single marked top-right corner of the source, found at the bottom-left
C7_Witness ==
    /\ pc = "get_mask_area"
    /\ ForegroundCells(CurrentSource) = {<<0, N - 1>>}
    /\ ForegroundCells(mask) = {<<N - 1, 0>>}
    /\ masks_paths[mask_idx].mode = "RGB"

\* ---- C8
CurrentTable == ClusterFilesOf(dir_idx)[1].table

\* C8: the loaded sequence has one point per cluster record, in source order,
\* the i-th being (com_x[i] * s, com_y[i] * s) with
\* s = PX_SIZE_MEASUREMENT / PX_SIZE_CLUSTERS.
C8_Rescaled ==
    (pc = "for_mask" \/ AfterGetMask \/ pc = "get_mask") =>
        /\ Len(clusters_xy) = Len(CurrentTable)
        /\ n_clusters = Len(CurrentTable)
        /\ \A i \in DOMAIN clusters_xy :
              /\ clusters_xy[i][1] * RawDen * PX_SIZE_CLUSTERS
                    = CurrentTable[i].com_x * PX_SIZE_MEASUREMENT * CoordDen
              /\ clusters_xy[i][2] * RawDen * PX_SIZE_CLUSTERS
                    = CurrentTable[i].com_y * PX_SIZE_MEASUREMENT * CoordDen

C8_Witness ==
    /\ pc = "for_mask"
    /\ Len(clusters_xy) = 2
    /\ clusters_xy[1] # clusters_xy[2]
    /\ clusters_xy[1][1] # clusters_xy[1][2]

\* ---- C9
RecordsOf(d) == { f \in records : f.path[1] = d }

\* C9: the loader runs once per directory and before any mask; after an
\* error-free run every directory has as many records as mask files, and
\* every record carries the number of loaded cluster points.
C9_OneRecordPerMask ==
    /\ \A d \in DIR_PATHS : n_loads[d] <= 1
    /\ (pc = "get_mask" \/ AfterGetMask) => n_loads[dir_idx] = 1
    /\ pc = "done" =>
          \A d \in DIR_PATHS :
             n_loads[d] = 1 /\ Cardinality(RecordsOf(d)) = Len(MasksOf(d))
    /\ \A f \in records : f.row.total = Len(ClusterFilesOf(f.path[1])[1].table)

\* ---- C10
\* C10: get_mask_area and get_cluster_count leave the mask and the coordinate
\* sequence as they were: after them the mask is still the aligned,
\* un-binarized array of the current file and the coordinates are those
\* loaded for the directory.
C10_ArgumentsUnchanged ==
    AfterMaskArea =>
        /\ mask = get_mask(masks_paths[mask_idx])
        /\ clusters_xy = get_xy_locs(ClusterFilesOf(dir_idx)[1])

C10_Witness ==
    /\ pc = "density"
    /\ mask_idx = 2
    /\ \E rc \in Idx \X Idx : mask[rc[1]][rc[2]] > 1

====
